---- MODULE Spec2Model ----
(***************************************************************************)
(* Network ACL driver (lxd/network/acl/driver_common.go): the rule and     *)
(* config validators and the Update / Rename / Delete operations of an ACL *)
(* handle, with the store and the OVN (SDN) client as collaborators whose  *)
(* calls succeed or fail.                                                  *)
(*                                                                         *)
(* Strings are sequences of tokens: the blank " " and the separator ","    *)
(* are tokens of their own, every other token is an opaque word ("allow",  *)
(* "10.0.0.0/24", "@internal").  The empty string is << >>.                *)
(***************************************************************************)
EXTENDS Integers, Sequences, FiniteSets, TLC

VARIABLES store, refs, sdn, info, pc, call, probe

vars == <<store, refs, sdn, info, pc, call, probe>>

\* ------------------------------------------------------------------ strings

Empty == << >>

W(w) == <<w>>

RECURSIVE TrimLeft(_)
TrimLeft(s) == IF s # Empty /\ Head(s) = " " THEN TrimLeft(Tail(s)) ELSE s

RECURSIVE TrimRight(_)
TrimRight(s) ==
    IF s # Empty /\ s[Len(s)] = " " THEN TrimRight(SubSeq(s, 1, Len(s) - 1)) ELSE s

TrimSpace(s) == TrimRight(TrimLeft(s))

\* strings.Split(s, sep): the pieces between the separators, at least one piece.
RECURSIVE Split(_, _)
Split(s, sep) ==
    IF \E i \in 1..Len(s) : s[i] = sep
    THEN LET i == CHOOSE k \in 1..Len(s) : s[k] = sep /\ \A j \in 1..(k - 1) : s[j] # sep
         IN  <<SubSeq(s, 1, i - 1)>> \o Split(SubSeq(s, i + 1, Len(s)), sep)
    ELSE <<s>>

RECURSIVE Join(_, _)
Join(parts, sep) ==
    IF parts = << >> THEN Empty
    ELSE IF Len(parts) = 1 THEN parts[1]
    ELSE parts[1] \o <<sep>> \o Join(Tail(parts), sep)

\* util.SplitNTrimSpace(s, ",", -1, false)
SplitNTrimSpace(s) ==
    LET parts == Split(s, ",") IN [i \in 1..Len(parts) |-> TrimSpace(parts[i])]

\* shared.StringHasPrefix(name, "@", "%", "#")
StringHasPrefix(s, prefixes) == s # Empty /\ Head(s) \in prefixes

\* shared.IsUserConfig(key): the key starts with "user."
IsUserConfig(k) == k # Empty /\ Head(k) = "user."

\* ------------------------------------------------------------------ constants

ruleDirectionIngress == "ingress"
ruleDirectionEgress == "egress"

ruleSubjectInternal == W("@internal")
ruleSubjectExternal == W("@external")

ruleSubjectInternalAliases == <<ruleSubjectInternal, W("#internal")>>
ruleSubjectExternalAliases == <<ruleSubjectExternal, W("#external")>>

ValidActions == {W("allow"), W("drop"), W("reject")}

validStates == {W("enabled"), W("disabled"), W("logged")}

validProtocols == {W("icmp4"), W("icmp6"), W("tcp"), W("udp")}

\* ------------------------------------------------------------------ errors

\* An error is a sequence of strings, the outermost context first; nil is << >>.
Nil == << >>

Err(msg) == <<msg>>

Wrapf(err, ctx) == <<ctx>> \o err

\* ------------------------------------------------------------------ parsers

\* The address, port and number parsers of the standard library and of
\* shared/validate, over the words the model uses.
IPv4Addresses == {"10.0.0.1", "192.0.2.1"}
IPv6Addresses == {"2001:db8::1"}
IPv4CIDRs == {"10.0.0.0/24", "192.0.2.0/24"}
IPv6CIDRs == {"2001:db8::/32"}
IPv4Ranges == {"10.0.0.1-10.0.0.9"}
IPv6Ranges == {"2001:db8::1-2001:db8::9"}
NetworkPorts == {"80", "443"}
NetworkPortRanges == {"8000-8080"}
Uint8s == {"0", "8", "255"}

NoVersion == -1

\* isNetworkAddress: the IP version of a single address, NoVersion on error.
isNetworkAddress(value) ==
    IF Len(value) = 1 /\ value[1] \in IPv4Addresses THEN 4
    ELSE IF Len(value) = 1 /\ value[1] \in IPv6Addresses THEN 6
    ELSE NoVersion

isNetworkAddressCIDR(value) ==
    IF Len(value) = 1 /\ value[1] \in IPv4CIDRs THEN 4
    ELSE IF Len(value) = 1 /\ value[1] \in IPv6CIDRs THEN 6
    ELSE NoVersion

isNetworkRange(value) ==
    IF Len(value) = 1 /\ value[1] \in IPv4Ranges THEN 4
    ELSE IF Len(value) = 1 /\ value[1] \in IPv6Ranges THEN 6
    ELSE NoVersion

IsNetworkPort(port) == Len(port) = 1 /\ port[1] \in NetworkPorts

IsNetworkPortRange(port) == Len(port) = 1 /\ port[1] \in NetworkPortRanges

IsUint8(value) == Len(value) = 1 /\ value[1] \in Uint8s

\* shared.ValidHostname, over the names the model uses.
Hostnames == {"web", "db", "api"}

ValidHostname(name) ==
    IF Len(name) = 1 /\ name[1] \in Hostnames THEN Nil ELSE Err("Invalid hostname")

\* ------------------------------------------------------------------ rules

\* api.NetworkACLRule.Normalise: the subject lists and the port lists are split
\* at the commas, each piece trimmed, and joined again.
NormaliseList(s) == Join(SplitNTrimSpace(s), ",")

Normalise(rule) ==
    [rule EXCEPT !.Source = NormaliseList(@),
                 !.Destination = NormaliseList(@),
                 !.SourcePort = NormaliseList(@),
                 !.DestinationPort = NormaliseList(@)]

NormaliseRules(rules) == [i \in 1..Len(rules) |-> Normalise(rules[i])]

\* The checks of validSubject in their order: the first parser that accepts
\* the subject gives its IP version.
firstVersion(address, cidr, range) ==
    IF address # NoVersion THEN address ELSE IF cidr # NoVersion THEN cidr ELSE range

\* validSubject, once the parsers have answered: [version, err]; version 0 is
\* a name.
validSubjectNamed(version, fieldName, direction, subject, names, allowed) ==
    IF version # NoVersion THEN [version |-> version, err |-> Nil]
    ELSE IF subject \in names
    THEN IF allowed
         THEN [version |-> 0, err |-> Nil]
         ELSE [version |-> 0,
               err |-> <<"Named subjects not allowed in", fieldName, direction>>]
    ELSE [version |-> 0, err |-> Err("Invalid subject")]

validSubject(fieldName, direction, subject, validSubjectNames, allowSubjectNames) ==
    validSubjectNamed(firstVersion(isNetworkAddress(subject),
                                   isNetworkAddressCIDR(subject),
                                   isNetworkRange(subject)),
                      fieldName, direction, subject, validSubjectNames, allowSubjectNames)

\* The index of the first failure in a sequence of errors, 0 when there is none.
firstFailure(errs) ==
    IF \A i \in 1..Len(errs) : errs[i] = Nil THEN 0
    ELSE CHOOSE i \in 1..Len(errs) :
             errs[i] # Nil /\ \A j \in 1..(i - 1) : errs[j] = Nil

\* The loop of validateRuleSubjects over the results of validSubject.
subjectsResult(res, first) ==
    IF first # 0
    THEN [hasName |-> FALSE, hasIPv4 |-> FALSE, hasIPv6 |-> FALSE, err |-> res[first].err]
    ELSE [hasName |-> \E i \in 1..Len(res) : res[i].version = 0,
          hasIPv4 |-> \E i \in 1..Len(res) : res[i].version = 4,
          hasIPv6 |-> \E i \in 1..Len(res) : res[i].version = 6,
          err |-> Nil]

allowSubjectNamesEverywhere(fieldName, direction) == TRUE

\* validateRuleSubjects, lines 452-456.
allowSubjectNames(fieldName, direction) ==
    \/ (fieldName = "Source" /\ direction = ruleDirectionIngress)
    \/ (fieldName = "Destination" /\ direction = ruleDirectionEgress)

subjectResults(fieldName, direction, subjects, validSubjectNames) ==
    [i \in 1..Len(subjects) |->
        validSubject(fieldName, direction, subjects[i], validSubjectNames,
                     allowSubjectNames(fieldName, direction))]

errorsOf(res) == [i \in 1..Len(res) |-> res[i].err]

subjectsOutcome(res) == subjectsResult(res, firstFailure(errorsOf(res)))

\* validateRuleSubjects: [hasName, hasIPv4, hasIPv6, err]
validateRuleSubjects(fieldName, direction, subjects, validSubjectNames) ==
    subjectsOutcome(subjectResults(fieldName, direction, subjects, validSubjectNames))

validatePortsSingle(ports) ==
    IF Len(ports) # 1 \/ ~(IsNetworkPort(ports[1]) \/ IsNetworkPortRange(ports[1]))
    THEN Err("Invalid port")
    ELSE Nil

\* validatePorts
validatePorts(ports) ==
    IF \E i \in 1..Len(ports) : ~(IsNetworkPort(ports[i]) \/ IsNetworkPortRange(ports[i]))
    THEN Err("Invalid port")
    ELSE Nil

NoSubjects == [hasName |-> FALSE, hasIPv4 |-> FALSE, hasIPv6 |-> FALSE, err |-> Nil]

validateTransportFieldsICMPCodeAllowed(rule, srcPortErr, dstPortErr) ==
    IF rule.ICMPType # Empty
    THEN Err("ICMP type cannot be used with non-ICMP protocol")
    ELSE IF rule.SourcePort # Empty /\ srcPortErr # Nil
    THEN Wrapf(srcPortErr, "Invalid Source port")
    ELSE IF rule.DestinationPort # Empty /\ dstPortErr # Nil
    THEN Wrapf(dstPortErr, "Invalid Destination port")
    ELSE Nil

\* validateRule, lines 361-384: the fields of a tcp or udp rule.  srcPortErr
\* and dstPortErr are what validatePorts says of the two port lists.
validateTransportFields(rule, srcPortErr, dstPortErr) ==
    IF rule.ICMPType # Empty
    THEN Err("ICMP type cannot be used with non-ICMP protocol")
    ELSE IF rule.ICMPCode # Empty
    THEN Err("ICMP code cannot be used with non-ICMP protocol")
    ELSE IF rule.SourcePort # Empty /\ srcPortErr # Nil
    THEN Wrapf(srcPortErr, "Invalid Source port")
    ELSE IF rule.DestinationPort # Empty /\ dstPortErr # Nil
    THEN Wrapf(dstPortErr, "Invalid Destination port")
    ELSE Nil

\* validateRule, lines 394-426: the addresses and the ICMP fields of an icmp4
\* or icmp6 rule.
validateICMPAddressesAndFields(rule, src, dst) ==
    IF rule.Protocol = W("icmp4") /\ src.hasIPv6
    THEN Err("Cannot use IPv6 source addresses with icmp4")
    ELSE IF rule.Protocol = W("icmp4") /\ dst.hasIPv6
    THEN Err("Cannot use IPv6 destination addresses with icmp4")
    ELSE IF rule.Protocol = W("icmp6") /\ src.hasIPv4
    THEN Err("Cannot use IPv4 source addresses with icmp6")
    ELSE IF rule.Protocol = W("icmp6") /\ dst.hasIPv4
    THEN Err("Cannot use IPv4 destination addresses with icmp6")
    ELSE IF rule.ICMPType # Empty /\ ~IsUint8(rule.ICMPType)
    THEN Err("Invalid ICMP type")
    ELSE IF rule.ICMPCode # Empty /\ ~IsUint8(rule.ICMPCode)
    THEN Err("Invalid ICMP code")
    ELSE Nil

validateICMPFieldsSourcePortAllowed(rule, fieldsErr) ==
    IF rule.DestinationPort # Empty
    THEN <<"Destination port cannot be used with protocol", rule.Protocol[1]>>
    ELSE fieldsErr

\* validateRule, lines 385-426: the fields of an icmp4 or icmp6 rule; fieldsErr
\* is what lines 394-426 say.
validateICMPFields(rule, fieldsErr) ==
    IF rule.SourcePort # Empty
    THEN <<"Source port cannot be used with protocol", rule.Protocol[1]>>
    ELSE IF rule.DestinationPort # Empty
    THEN <<"Destination port cannot be used with protocol", rule.Protocol[1]>>
    ELSE fieldsErr

\* validateRule, lines 427-443: the fields of a rule without protocol.
validateNoProtocolFields(rule) ==
    IF rule.ICMPType # Empty
    THEN Err("ICMP type cannot be used without specifying protocol")
    ELSE IF rule.ICMPCode # Empty
    THEN Err("ICMP code cannot be used without specifying protocol")
    ELSE IF rule.SourcePort # Empty
    THEN Err("Source port cannot be used without specifying protocol")
    ELSE IF rule.DestinationPort # Empty
    THEN Err("Destination port cannot be used without specifying protocol")
    ELSE Nil

\* validateRule, lines 360-443: the protocol dependent fields.
validateProtocolFields(rule, src, dst, srcPortErr, dstPortErr) ==
    IF rule.Protocol \in {W("tcp"), W("udp")}
    THEN validateTransportFields(rule, srcPortErr, dstPortErr)
    ELSE IF rule.Protocol \in {W("icmp4"), W("icmp6")}
    THEN validateICMPFields(rule, validateICMPAddressesAndFields(rule, src, dst))
    ELSE validateNoProtocolFields(rule)

validateSubjectsAndProtocolOneWay(rule, src, dst) ==
    IF src.err # Nil THEN Wrapf(src.err, "Invalid Source")
    ELSE IF dst.err # Nil THEN Wrapf(dst.err, "Invalid Destination")
    ELSE IF rule.Source # Empty /\ rule.Destination # Empty
            /\ src.hasIPv4 /\ ~dst.hasIPv4 /\ ~dst.hasName
    THEN Err("Conflicting IP family types used for Source and Destination")
    ELSE IF rule.Protocol # Empty /\ rule.Protocol \notin validProtocols
    THEN Err("Protocol must be one of")
    ELSE validateProtocolFields(rule, src, dst,
                                validatePorts(SplitNTrimSpace(rule.SourcePort)),
                                validatePorts(SplitNTrimSpace(rule.DestinationPort)))

\* validateRule, lines 326-358, once both subject lists were looked at.
validateSubjectsAndProtocol(rule, src, dst) ==
    IF src.err # Nil THEN Wrapf(src.err, "Invalid Source")
    ELSE IF dst.err # Nil THEN Wrapf(dst.err, "Invalid Destination")
    ELSE IF rule.Source # Empty /\ rule.Destination # Empty
            /\ (\/ (src.hasIPv4 /\ ~dst.hasIPv4 /\ ~dst.hasName)
                \/ (dst.hasIPv4 /\ ~src.hasIPv4 /\ ~src.hasName)
                \/ (src.hasIPv6 /\ ~dst.hasIPv6 /\ ~dst.hasName)
                \/ (dst.hasIPv6 /\ ~src.hasIPv6 /\ ~src.hasName))
    THEN Err("Conflicting IP family types used for Source and Destination")
    ELSE IF rule.Protocol # Empty /\ rule.Protocol \notin validProtocols
    THEN Err("Protocol must be one of")
    ELSE validateProtocolFields(rule, src, dst,
                                validatePorts(SplitNTrimSpace(rule.SourcePort)),
                                validatePorts(SplitNTrimSpace(rule.DestinationPort)))

\* The names validateRule accepts as subjects: the reserved ones, their
\* aliases, and the ACLs of the project.
validSubjectNamesOf(acls) ==
    {ruleSubjectInternalAliases[i] : i \in 1..Len(ruleSubjectInternalAliases)}
    \cup {ruleSubjectExternalAliases[i] : i \in 1..Len(ruleSubjectExternalAliases)}
    \cup acls

\* The subjects of one field of a rule; an empty field is not looked at.
fieldSubjects(fieldName, direction, rule, validSubjectNames) ==
    IF rule[fieldName] # Empty
    THEN validateRuleSubjects(fieldName, direction, SplitNTrimSpace(rule[fieldName]),
                              validSubjectNames)
    ELSE NoSubjects

bothSubjects(direction, rule, validSubjectNames) ==
    [f \in {"Source", "Destination"} |->
        fieldSubjects(f, direction, rule, validSubjectNames)]

validateSubjects(rule, subjects) ==
    validateSubjectsAndProtocol(rule, subjects["Source"], subjects["Destination"])

\* validateRule: acls are the ACL names the store lists for the project,
\* readOk whether that listing succeeds.
validateRule(direction, rule, acls, readOk) ==
    IF rule.Action \notin ValidActions THEN Err("Action must be one of")
    ELSE IF rule.State \notin validStates THEN Err("State must be one of")
    ELSE IF ~readOk
    THEN Err("Failed getting network ACLs for security ACL subject validation")
    ELSE validateSubjects(rule, bothSubjects(direction, rule, validSubjectNamesOf(acls)))

\* ------------------------------------------------------------------ config

validateConfigMapOpen(config, rules) ==
    LET failing == {k \in DOMAIN rules :
                       (IF k \in DOMAIN config THEN config[k] ELSE Empty) \notin rules[k]}
    IN  IF failing # {}
        THEN {<<"Invalid value for config option">> \o k : k \in failing}
        ELSE {Nil}

\* validateConfigMap: the errors the call can return ({Nil} when it accepts).
\* rules maps a key to the set of values its validator accepts; a missing key
\* is validated as the empty string.  Go ranges over both maps in no fixed
\* order, so any failing key can be the one reported.
validateConfigMap(config, rules) ==
    LET failing == {k \in DOMAIN rules :
                       (IF k \in DOMAIN config THEN config[k] ELSE Empty) \notin rules[k]}
        unknown == {k \in DOMAIN config : k \notin DOMAIN rules /\ ~IsUserConfig(k)}
    IN  IF failing # {}
        THEN {<<"Invalid value for config option">> \o k : k \in failing}
        ELSE IF unknown # {}
        THEN {<<"Invalid config option">> \o k : k \in unknown}
        ELSE {Nil}

\* The table Update validates against: validateConfig passes nil.
NoConfigRules == [k \in {} |-> {}]

NoReadFailure == <<"none", 0>>

\* validateConfig, lines 225-241 (244-260): what the loop body says of rule i
\* of a direction: the rule is validated, then compared with every other rule
\* of the sequence.  failAt = <<direction, i>> makes the listing of the ACL
\* names fail in the validation of rule i.
ruleOrAdjacentDuplicate(err, direction, rules, i) ==
    IF err # Nil
    THEN <<"Invalid rule", direction, ToString(i - 1)>> \o err
    ELSE IF \E ri \in 1..Len(rules) : ri = i + 1 /\ rules[ri] = rules[i]
    THEN <<"Duplicate of rule", direction, ToString(i - 1)>>
    ELSE Nil

ruleOrDuplicate(err, direction, rules, i) ==
    IF err # Nil
    THEN <<"Invalid rule", direction, ToString(i - 1)>> \o err
    ELSE IF \E ri \in 1..Len(rules) : ri # i /\ rules[ri] = rules[i]
    THEN <<"Duplicate of rule", direction, ToString(i - 1)>>
    ELSE Nil

\* Every rule validated first, the duplicates looked for only when all passed.
threePassErrors(errs, direction, rules) ==
    [i \in 1..Len(rules) |->
        IF \E j \in 1..Len(rules) : errs[j] # Nil
        THEN IF errs[i] # Nil
             THEN <<"Invalid rule", direction, ToString(i - 1)>> \o errs[i]
             ELSE Nil
        ELSE ruleOrDuplicate(Nil, direction, rules, i)]

ruleErrorsThreePasses(direction, rules, acls, failAt) ==
    threePassErrors([i \in 1..Len(rules) |->
                        validateRule(direction, rules[i], acls, failAt # <<direction, i>>)],
                    direction, rules)

\* validateConfig, lines 225-241 (244-260): the loop body at every index.
ruleErrors(direction, rules, acls, failAt) ==
    [i \in 1..Len(rules) |->
        ruleOrDuplicate(validateRule(direction, rules[i], acls, failAt # <<direction, i>>),
                        direction, rules, i)]

errorAt(errs, first) == IF first = 0 THEN Nil ELSE errs[first]

firstError(errs) == errorAt(errs, firstFailure(errs))

\* The loop over the rules of one direction stops at the first error.
validateRules(direction, rules, acls, failAt) ==
    firstError(ruleErrors(direction, rules, acls, failAt))

\* The configuration as validateConfig leaves it: every rule normalised.
NormaliseConfig(cfg) ==
    [cfg EXCEPT !.Ingress = NormaliseRules(@), !.Egress = NormaliseRules(@)]

\* Ingress is validated before egress.
directionErrors(n, acls, failAt) ==
    [d \in {1, 2} |->
        validateRules(IF d = 1 THEN ruleDirectionIngress ELSE ruleDirectionEgress,
                      IF d = 1 THEN n.Ingress ELSE n.Egress, acls, failAt)]

\* validateConfig, after the config map was accepted (mapErr = Nil) or not.
validateConfig(cfg, mapErr, acls, failAt) ==
    IF mapErr # Nil THEN mapErr
    ELSE firstError(directionErrors(NormaliseConfig(cfg), acls, failAt))

\* validateName
validateName(name) ==
    IF name = Empty THEN Err("Name is required")
    ELSE IF StringHasPrefix(name, {"@", "%", "#"})
    THEN Err("Name cannot start with reserved character")
    ELSE ValidHostname(name)


\* ------------------------------------------------------------------ inputs

BaseRule ==
    [Action |-> W("allow"), State |-> W("enabled"), Source |-> Empty,
     Destination |-> Empty, Protocol |-> Empty, SourcePort |-> Empty,
     DestinationPort |-> Empty, ICMPType |-> Empty, ICMPCode |-> Empty]

\* Valid once normalised: named subject as Source of an ingress rule.
RuleFromInternal ==
    [BaseRule EXCEPT !.Source = <<"10.0.0.0/24", " ", ",", " ", "@internal">>,
                     !.Protocol = W("tcp"),
                     !.DestinationPort = <<"80", ",", " ", "443">>]

\* The same rule as RuleFromInternal leaves normalisation.
RuleFromInternalNormal ==
    [BaseRule EXCEPT !.Source = <<"10.0.0.0/24", ",", "@internal">>,
                     !.Protocol = W("tcp"),
                     !.DestinationPort = <<"80", ",", "443">>]

\* Valid: the ACL "db" of the project as Destination of an egress rule.
RuleToDb ==
    [BaseRule EXCEPT !.Action = W("drop"), !.Destination = W("db"), !.Protocol = W("udp")]

RuleDropAll == [BaseRule EXCEPT !.Action = W("drop"), !.State = W("logged")]

\* Invalid: a port with an ICMP protocol.
RulePingPort ==
    [BaseRule EXCEPT !.Protocol = W("icmp4"), !.DestinationPort = W("80")]

NoConfig == [k \in {} |-> Empty]

UserConfig == [k \in {<<"user.", "owner">>} |-> W("ops")]

UnknownConfig == [k \in {W("foo")} |-> W("bar")]

EmptyPut == [Description |-> "", Ingress |-> << >>, Egress |-> << >>, Config |-> NoConfig]

PutWeb ==
    [Description |-> "web", Ingress |-> <<RuleFromInternal>>, Egress |-> <<RuleToDb>>,
     Config |-> UserConfig]

PutDrop ==
    [Description |-> "drop", Ingress |-> <<RuleDropAll>>, Egress |-> << >>,
     Config |-> NoConfig]

PutUnknownKey == [PutDrop EXCEPT !.Config = UnknownConfig]

\* A user key next to a key without validator.
MixedConfig ==
    [k \in {<<"user.", "owner">>, W("foo")} |-> IF k = W("foo") THEN W("bar") ELSE W("ops")]

PutMixedKeys == [PutWeb EXCEPT !.Config = MixedConfig]

PutPingPort == [PutDrop EXCEPT !.Ingress = <<RuleDropAll, RulePingPort>>]

PutDuplicate == [PutDrop EXCEPT !.Ingress = <<RuleFromInternal, RuleFromInternalNormal>>]

PutDuplicateThenInvalid ==
    [PutDrop EXCEPT !.Ingress = <<RuleDropAll, RuleDropAll, RulePingPort>>]

\* The configurations callers propose to Update.
ProposedConfigs ==
    {EmptyPut, PutWeb, PutDrop, PutUnknownKey, PutPingPort, PutDuplicate,
     PutDuplicateThenInvalid, PutMixedKeys}

\* The names callers propose to Rename.
ProposedNames == {W("web"), W("api"), W("db"), Empty, <<"@", "x">>, W("no_host")}

\* The other ACL of the project.
OtherACLName == W("db")

\* The entities that can reference the ACL: here two networks of the project,
\* which NetworkUsage reports with their type.
Entities == {"network/ovn1", "network/br0"}

EntityNetwork(e) ==
    IF e = "network/br0" THEN [name |-> "br0", Type |-> "bridge"]
    ELSE [name |-> "ovn1", Type |-> "ovn"]

Handles == {1, 2}

\* ------------------------------------------------------------------ state

\* store: the row of the ACL (whether it exists, its name, its configuration).
\* refs:  the references of other entities to an ACL name.
\* sdn:   the port group of the ACL in OVN: << >>, or the rules applied.
\* info:  the in-memory api.NetworkACL of each handle.
\* pc:    where each handle's current call stands.
\* call:  the record of each handle's current (or last) call: its arguments and
\*        locals, and what it did so far (history).
\* probe: one direct call of validateRule or validateConfig: its arguments and,
\*        once applied, the error it returned.
NoCall ==
    [op |-> "none", proposed |-> EmptyPut, cfg |-> EmptyPut, newName |-> Empty,
     err |-> Nil, phases |-> << >>, failed |-> "", step |-> "",
     oldConfig |-> EmptyPut, plan |-> << >>, pushed |-> << >>, ran |-> << >>,
     log |-> << >>, revertWriteOk |-> TRUE, scoped |-> FALSE, usage |-> {},
     sdnPre |-> << >>, storePre |-> EmptyPut, infoPre |-> EmptyPut,
     namePre |-> Empty, namesPre |-> {}, usedPre |-> FALSE, sdnStart |-> << >>,
     used |-> FALSE, inFlight |-> {}]

\* common.init: nil rule lists become empty ones and every rule is normalised.
init(put) == NormaliseConfig(put)

\* The ACL names the store lists for the project (GetNetworkACLIDsByNames).
ProjectACLNames == {OtherACLName} \cup (IF store.exists THEN {store.name} ELSE {})

\* UsedBy / usedBy: the references to the ACL name.
usedBy(name) == {r \in refs : r.name = name}

\* isUsed
isUsed(name) == usedBy(name) # {}

\* NetworkUsage: the networks the ACL is on.
NetworkUsage(name) == {EntityNetwork(r.ent) : r \in usedBy(name)}

OVNNetworksUnfiltered(aclNets) == aclNets

\* Update, lines 628-633: the networks that are not OVN networks are dropped.
OVNNetworks(aclNets) == {n \in aclNets : n.Type = "ovn"}

NoProbe ==
    [kind |-> "none", direction |-> ruleDirectionIngress, rule |-> BaseRule,
     cfg |-> EmptyPut, readOk |-> TRUE, failAt |-> NoReadFailure, applied |-> FALSE,
     err |-> Nil, fieldName |-> "Source", subjects |-> << >>, has |-> NoSubjects]

\* The ACL and its handles as they are loaded.
InitACL ==
    /\ store = [exists |-> TRUE, name |-> W("web"), cfg |-> EmptyPut]
    /\ refs = {}
    /\ sdn = << >>
    /\ info = [h \in Handles |-> [Name |-> W("web"), Put |-> init(EmptyPut)]]
    /\ pc = [h \in Handles |-> "idle"]
    /\ call = [h \in Handles |-> NoCall]

Init == InitACL /\ probe = NoProbe

Quiet == \A h \in Handles : pc[h] \in {"idle", "deleted"}

\* What a call of handle h finds when it starts.
Begin(h, op) ==
    [NoCall EXCEPT !.op = op, !.storePre = store.cfg, !.infoPre = info[h].Put,
                   !.inFlight = {g \in Handles \ {h} : pc[g] \notin {"idle", "deleted"}},
                   !.namePre = info[h].Name, !.namesPre = ProjectACLNames,
                   !.usedPre = isUsed(info[h].Name), !.sdnStart = sdn]

Logged(c, name, ok) == [c EXCEPT !.log = Append(@, <<name, IF ok THEN "ok" ELSE "err">>)]

\* ------------------------------------------------------------------ Update

\* The points of validateConfig at which the listing of the ACL names can fail.
ReadFailures(cfg) ==
    {NoReadFailure}
    \cup {<<ruleDirectionIngress, i>> : i \in 1..Len(cfg.Ingress)}
    \cup {<<ruleDirectionEgress, i>> : i \in 1..Len(cfg.Egress)}

FailUpdateRestoringStore(h, c, phase, err) ==
    /\ call' = [call EXCEPT ![h] =
                   [c EXCEPT !.err = err, !.failed = phase,
                             !.step = c.log[Len(c.log)][1],
                             !.plan = IF c.plan = << >> THEN <<"store">> ELSE @,
                             !.pushed = IF c.plan = << >> THEN <<"store">> ELSE @,
                             !.phases = Append(@, "RollingBack")]]
    /\ pc' = [pc EXCEPT ![h] = "revert"]

\* A step of the call of handle h fails with err: Update returns err, and the
\* deferred revert.Fail() runs the reversal plan before the caller has it.
FailUpdate(h, c, phase, err) ==
    /\ call' = [call EXCEPT ![h] =
                   [c EXCEPT !.err = err, !.failed = phase,
                             !.step = c.log[Len(c.log)][1],
                             !.phases = Append(@, "RollingBack")]]
    /\ pc' = [pc EXCEPT ![h] = "revert"]

CommitWithoutSuccess(h, c) ==
    /\ call' = [call EXCEPT ![h] = [c EXCEPT !.phases = Append(@, "Committed")]]
    /\ pc' = [pc EXCEPT ![h] = "revert"]

\* Update, lines 660-661: revert.Success() discards the plan, nil is returned.
CommitUpdate(h, c) ==
    /\ call' = [call EXCEPT ![h] =
                   [c EXCEPT !.plan = << >>, !.phases = Append(@, "Committed")]]
    /\ pc' = [pc EXCEPT ![h] = "idle"]

ValidationIgnored(err) == FALSE

\* Update, lines 593-595: an error of validateConfig is returned at once.
ValidationFailed(err) == err # Nil

\* Update, lines 591-600: validateConfig, then revert.New() and oldConfig.
UpdateValidate(h, config) ==
    /\ pc[h] = "idle"
    /\ \E mapErr \in validateConfigMap(config.Config, NoConfigRules),
          failAt \in ReadFailures(config) :
          LET err == validateConfig(config, mapErr, ProjectACLNames, failAt)
              c == [Begin(h, "Update") EXCEPT !.phases = <<"Validating">>,
                                              !.proposed = config]
          IN  IF ValidationFailed(err)
              THEN /\ call' = [call EXCEPT ![h] =
                                  [c EXCEPT !.err = err, !.failed = "Validating"]]
                   /\ pc' = pc
              ELSE /\ call' = [call EXCEPT ![h] =
                                  [c EXCEPT !.cfg = NormaliseConfig(config),
                                            !.oldConfig = info[h].Put,
                                            !.phases = Append(@, "Persisting")]]
                   /\ pc' = [pc EXCEPT ![h] = "persist"]
    /\ UNCHANGED <<store, refs, sdn, info, probe>>

PersistErrorIgnored(ok) == FALSE

\* Update, lines 604-606: an error of the store write is returned.
PersistFailed(ok) == ~ok

InfoNotApplied(h, c) == info

\* Update, lines 609-610: the handle takes the new configuration and init
\* normalises it.
AppliedInfo(h, c) == [info EXCEPT ![h].Put = init(c.cfg)]

\* Update, lines 602-616: the store write, the in-memory apply, revert.Add.
UpdatePersist(h) ==
    /\ pc[h] = "persist"
    /\ \E ok \in BOOLEAN :
          LET c == Logged(call[h], "store.updateACL", ok)
          IN  IF PersistFailed(ok)
              THEN /\ FailUpdate(h, c, "Persisting", Err("store: update failed"))
                   /\ UNCHANGED <<store, info>>
              ELSE /\ store' = IF ok /\ store.exists THEN [store EXCEPT !.cfg = c.cfg]
                               ELSE store
                   /\ info' = AppliedInfo(h, c)
                   /\ call' = [call EXCEPT ![h] =
                                  [c EXCEPT !.plan = Append(@, "store"),
                                            !.pushed = Append(@, "store"),
                                            !.phases = Append(@, "ScopingSDN")]]
                   /\ pc' = [pc EXCEPT ![h] = "scope"]
    /\ UNCHANGED <<refs, sdn, probe>>

\* Update, lines 622-635 and 660-661: NetworkUsage, the filter to OVN networks,
\* and the commit when none is left.
UpdateScope(h) ==
    /\ pc[h] = "scope"
    /\ \E ok \in BOOLEAN :
          LET c == Logged(call[h], "store.networkUsage", ok)
              cs == [c EXCEPT !.scoped = TRUE, !.usage = NetworkUsage(info[h].Name)]
          IN  IF ~ok
              THEN FailUpdate(h, c, "ScopingSDN",
                              Wrapf(Err("usage failed"), "Failed getting ACL network usage"))
              ELSE IF OVNNetworks(NetworkUsage(info[h].Name)) = {}
              THEN CommitUpdate(h, cs)
              ELSE /\ call' = [call EXCEPT ![h] =
                                  [cs EXCEPT !.phases = Append(@, "SyncingSDN")]]
                   /\ pc' = [pc EXCEPT ![h] = "newovn"]
    /\ UNCHANGED <<store, refs, sdn, info, probe>>

\* Update, lines 636-639: openvswitch.NewOVN.
UpdateNewOVN(h) ==
    /\ pc[h] = "newovn"
    /\ \E ok \in BOOLEAN :
          LET c == Logged(call[h], "ovn.newClient", ok)
          IN  IF ok
              THEN /\ call' = [call EXCEPT ![h] = c]
                   /\ pc' = [pc EXCEPT ![h] = "getids"]
              ELSE FailUpdate(h, c, "SyncingSDN",
                              Wrapf(Err("ovn: connect failed"), "Failed to get OVN client"))
    /\ UNCHANGED <<store, refs, sdn, info, probe>>

\* Update, lines 641-645: GetNetworkACLIDsByNames.
UpdateGetIDs(h) ==
    /\ pc[h] = "getids"
    /\ \E ok \in BOOLEAN :
          LET c == Logged(call[h], "store.listACLNameToID", ok)
          IN  IF ok
              THEN /\ call' = [call EXCEPT ![h] = c]
                   /\ pc' = [pc EXCEPT ![h] = "ensure"]
              ELSE FailUpdate(h, c, "SyncingSDN",
                              Wrapf(Err("store: list failed"),
                                    "Failed getting network ACL IDs for security ACL update"))
    /\ UNCHANGED <<store, refs, sdn, info, probe>>

PlanBeforeEnsureChecked(plan, ok) == Append(plan, "sdn")

\* Update, lines 648-652: the reversal handle of OVNEnsureACLs is added to the
\* plan after the error check.
PlanAfterEnsure(plan, ok) == IF ok THEN Append(plan, "sdn") ELSE plan

\* Update, lines 647-652: OVNEnsureACLs, which loads the ACL by name from the
\* store and applies its rules, and revert.Add of its reversal handle.
UpdateEnsure(h) ==
    /\ pc[h] = "ensure"
    /\ \E ok \in BOOLEAN :
          LET c == [Logged(call[h], "ovn.ensureACLs", ok) EXCEPT
                       !.plan = PlanAfterEnsure(@, ok),
                       !.pushed = PlanAfterEnsure(@, ok)]
          IN  IF ok
              THEN /\ store.exists /\ store.name = info[h].Name
                   /\ sdn' = <<[Ingress |-> store.cfg.Ingress, Egress |-> store.cfg.Egress]>>
                   /\ call' = [call EXCEPT ![h] = [c EXCEPT !.sdnPre = sdn]]
                   /\ pc' = [pc EXCEPT ![h] = "pgdel"]
              ELSE /\ FailUpdate(h, [c EXCEPT !.sdnPre = sdn], "SyncingSDN",
                                 Wrapf(Err("ovn: ensure failed"),
                                       "Failed ensuring ACL is configured in OVN"))
                   /\ sdn' = sdn
    /\ UNCHANGED <<store, refs, info, probe>>

\* Update, lines 654-661: OVNPortGroupDeleteIfUnused, revert.Success, return nil.
UpdatePortGroupDelete(h) ==
    /\ pc[h] = "pgdel"
    /\ \E ok \in BOOLEAN :
          LET c == Logged(call[h], "ovn.portGroupDeleteIfUnused", ok)
          IN  IF ok
              THEN /\ sdn' = IF isUsed(info[h].Name) THEN sdn ELSE << >>
                   /\ CommitUpdate(h, c)
              ELSE /\ FailUpdate(h, c, "SyncingSDN",
                                 Wrapf(Err("ovn: delete failed"),
                                       "Failed removing unused OVN port groups"))
                   /\ sdn' = sdn
    /\ UNCHANGED <<store, refs, info, probe>>

StoreNotRestored(c, ok) == store

\* Update, line 613: the reversal action writes oldConfig back to the store.
RestoredStore(c, ok) ==
    IF ok /\ store.exists THEN [store EXCEPT !.cfg = c.oldConfig] ELSE store

RestoredInfoIfWritten(h, c, ok) ==
    IF ok THEN [info EXCEPT ![h].Put = init(c.oldConfig)] ELSE info

\* Update, lines 614-615: the reversal action puts oldConfig back into the
\* handle and runs init, whatever its store write of line 613 returned.
RestoredInfo(h, c, ok) == [info EXCEPT ![h].Put = init(c.oldConfig)]

ErrOfReversal(c, ok) == IF ok THEN c.err ELSE Err("store: update failed")

\* Update, lines 612-616: the reversal action drops the error of its store
\* write; the error Update returns stays the one of the step that failed.
ErrAfterReversal(c, ok) == c.err

\* revert.Fail(): the reversal action pushed last runs first.
ReversalToRun(plan) == plan[Len(plan)]

ReversalsLeft(plan) == SubSeq(plan, 1, Len(plan) - 1)

\* The deferred revert.Fail() of line 598 runs one reversal action.  The store
\* restore is lines 612-616; the reversal handle of OVNEnsureACLs (line 652)
\* puts the port group back as it was.
UpdateRevert(h) ==
    /\ pc[h] = "revert"
    /\ call[h].plan # << >>
    /\ LET c == call[h]
           top == ReversalToRun(c.plan)
           rest == ReversalsLeft(c.plan)
       IN  IF top = "store"
           THEN \E ok \in BOOLEAN :
                   /\ store' = RestoredStore(c, ok)
                   /\ info' = RestoredInfo(h, c, ok)
                   /\ sdn' = sdn
                   /\ call' = [call EXCEPT ![h] =
                                  [Logged(c, "store.updateACL(revert)", ok) EXCEPT
                                      !.plan = rest, !.ran = Append(@, top),
                                      !.revertWriteOk = ok,
                                      !.err = ErrAfterReversal(c, ok)]]
           ELSE /\ sdn' = c.sdnPre
                /\ call' = [call EXCEPT ![h] =
                               [Logged(c, "ovn.revert", TRUE) EXCEPT
                                   !.plan = rest, !.ran = Append(@, top)]]
                /\ UNCHANGED <<store, info>>
    /\ UNCHANGED <<refs, pc, probe>>

\* The plan is exhausted: the caller has the error of Update.
UpdateReturn(h) ==
    /\ pc[h] = "revert"
    /\ call[h].plan = << >>
    /\ pc' = [pc EXCEPT ![h] = "idle"]
    /\ UNCHANGED <<store, refs, sdn, info, call, probe>>

\* ------------------------------------------------------------------ Rename

InUseAtStoreCallRechecked(c, name) == isUsed(name)

\* Rename, lines 671-688, and Delete, lines 698-707: the in-use answer the
\* destructive store call goes by is the one isUsed gave earlier in the call;
\* the references are not looked at again.
InUseAtStoreCall(c, name) == c.used

ReturnAfterPortGroupCleanup(h, c, err) ==
    /\ call' = [call EXCEPT ![h] =
                   [Logged(c, "ovn.portGroupDeleteIfUnused", TRUE) EXCEPT !.err = err]]
    /\ pc' = [pc EXCEPT ![h] = "idle"]

\* Rename and Delete return err to the caller; nothing else is done on the way.
Return(h, c, err) ==
    /\ call' = [call EXCEPT ![h] = [c EXCEPT !.err = err]]
    /\ pc' = [pc EXCEPT ![h] = "idle"]

\* Rename, lines 665-669: LoadByName of the new name.
RenameLookup(h, newName) ==
    /\ pc[h] = "idle"
    /\ LET found == newName \in ProjectACLNames
           c == [Logged(Begin(h, "Rename"), "store.getACLByName", found) EXCEPT
                    !.newName = newName]
       IN  IF found
           THEN Return(h, c, Err("An ACL by that name exists already"))
           ELSE /\ call' = [call EXCEPT ![h] = c]
                /\ pc' = [pc EXCEPT ![h] = "rename_used"]
    /\ UNCHANGED <<store, refs, sdn, info, probe>>

RenameIgnoresUse(usageOk, used, nameErr) ==
    IF ~usageOk THEN Wrapf(Err("usage failed"), "Failed getting ACL usage") ELSE nameErr

RenameChecksNameFirst(usageOk, used, nameErr) ==
    IF nameErr # Nil THEN nameErr
    ELSE IF ~usageOk THEN Wrapf(Err("usage failed"), "Failed getting ACL usage")
    ELSE IF used THEN Err("Cannot rename an ACL that is in use")
    ELSE Nil

\* Rename, lines 671-683: the error of isUsed, the in-use error, and then the
\* error of validateName.
RenameCheckError(usageOk, used, nameErr) ==
    IF ~usageOk THEN Wrapf(Err("usage failed"), "Failed getting ACL usage")
    ELSE IF used THEN Err("Cannot rename an ACL that is in use")
    ELSE nameErr

\* Rename, lines 671-683: isUsed, then validateName.
RenameCheck(h) ==
    /\ pc[h] = "rename_used"
    /\ \E ok \in BOOLEAN :
          LET c == [Logged(call[h], "store.enumerateUsage", ok) EXCEPT
                       !.used = ok /\ isUsed(info[h].Name)]
              err == RenameCheckError(ok, isUsed(info[h].Name), validateName(c.newName))
          IN  IF err # Nil
              THEN Return(h, c, err)
              ELSE /\ call' = [call EXCEPT ![h] = c]
                   /\ pc' = [pc EXCEPT ![h] = "rename_store"]
    /\ UNCHANGED <<store, refs, sdn, info, probe>>

\* Rename, lines 685-693: RenameNetworkACL, then the in-memory name.  The store
\* refuses a name another ACL of the project holds.
RenameStore(h) ==
    /\ pc[h] = "rename_store"
    /\ \E ok \in BOOLEAN :
          LET c == Logged(call[h], "store.renameACL", ok)
          IN  IF ok
              THEN /\ ~InUseAtStoreCall(c, info[h].Name)
                   /\ c.newName \notin ProjectACLNames
                   /\ store' = IF store.exists THEN [store EXCEPT !.name = c.newName]
                               ELSE store
                   /\ info' = [info EXCEPT ![h].Name = c.newName]
                   /\ Return(h, c, Nil)
              ELSE /\ Return(h, c, Err("store: rename failed"))
                   /\ UNCHANGED <<store, info>>
    /\ UNCHANGED <<refs, sdn, probe>>

\* ------------------------------------------------------------------ Delete

DeleteIgnoresUsageError(usageOk, used) ==
    IF usageOk /\ used THEN Err("Cannot delete an ACL that is in use") ELSE Nil

\* Delete, lines 698-705: the error of isUsed, then the in-use error.
DeleteCheckError(usageOk, used) ==
    IF ~usageOk THEN Wrapf(Err("usage failed"), "Failed getting ACL usage")
    ELSE IF used THEN Err("Cannot delete an ACL that is in use")
    ELSE Nil

\* Delete, lines 697-705: isUsed.
DeleteCheck(h) ==
    /\ pc[h] = "idle"
    /\ \E ok \in BOOLEAN :
          LET c == [Logged(Begin(h, "Delete"), "store.enumerateUsage", ok) EXCEPT
                       !.used = ok /\ isUsed(info[h].Name)]
              err == DeleteCheckError(ok, isUsed(info[h].Name))
          IN  IF err # Nil
              THEN Return(h, c, err)
              ELSE /\ call' = [call EXCEPT ![h] = c]
                   /\ pc' = [pc EXCEPT ![h] = "delete_store"]
    /\ UNCHANGED <<store, refs, sdn, info, probe>>

\* Delete, line 707: DeleteNetworkACL.  The handle of a deleted ACL is not
\* used again.
DeleteStore(h) ==
    /\ pc[h] = "delete_store"
    /\ \E ok \in BOOLEAN :
          LET c == Logged(call[h], "store.deleteACL", ok)
          IN  IF ok
              THEN /\ ~InUseAtStoreCall(c, info[h].Name)
                   /\ store' = [store EXCEPT !.exists = FALSE]
                   /\ call' = [call EXCEPT ![h] = c]
                   /\ pc' = [pc EXCEPT ![h] = "deleted"]
              ELSE /\ Return(h, c, Err("store: delete failed"))
                   /\ store' = store
    /\ UNCHANGED <<refs, sdn, info, probe>>

\* ------------------------------------------------------------------ callers

\* A caller loads the handle afresh from the store (LoadByName, then init).
Load(h) ==
    /\ pc[h] = "idle"
    /\ store.exists
    /\ info' = [info EXCEPT ![h] = [Name |-> store.name, Put |-> init(store.cfg)]]
    /\ call' = [call EXCEPT ![h] = NoCall]
    /\ UNCHANGED <<store, refs, sdn, pc, probe>>

\* Another entity of the project starts to reference the ACL by its name.
AddReference(e) ==
    /\ store.exists
    /\ [ent |-> e, name |-> store.name] \notin refs
    /\ refs' = refs \cup {[ent |-> e, name |-> store.name]}
    /\ UNCHANGED <<store, sdn, info, pc, call, probe>>

\* An entity drops its reference.
DropReference(r) ==
    /\ r \in refs
    /\ refs' = refs \ {r}
    /\ UNCHANGED <<store, sdn, info, pc, call, probe>>

\* ------------------------------------------------------------------ Spec

\* Sequential use: one handle, one call at a time, and the references change
\* between calls only.
SeqHandles == {1}

AddReferenceBetweenCalls(e) == Quiet /\ AddReference(e)

DropReferenceBetweenCalls(r) == Quiet /\ DropReference(r)

Next ==
    \E h \in SeqHandles :
        \/ \E config \in ProposedConfigs : UpdateValidate(h, config)
        \/ UpdatePersist(h)
        \/ UpdateScope(h)
        \/ UpdateNewOVN(h)
        \/ UpdateGetIDs(h)
        \/ UpdateEnsure(h)
        \/ UpdatePortGroupDelete(h)
        \/ UpdateRevert(h)
        \/ UpdateReturn(h)
        \/ \E newName \in ProposedNames : RenameLookup(h, newName)
        \/ RenameCheck(h)
        \/ RenameStore(h)
        \/ DeleteCheck(h)
        \/ DeleteStore(h)
        \/ Load(h)
        \/ \E e \in Entities : AddReferenceBetweenCalls(e)
        \/ \E r \in refs : DropReferenceBetweenCalls(r)

Spec == Init /\ [][Next]_vars

\* Concurrent use: both handles of the ACL run Rename and Delete calls step by
\* step, and other entities create and drop references at any time, also
\* between the in-use check of a call and its store call.
RaceNames == {W("api"), W("db"), Empty}

NextRace ==
    \/ \E h \in Handles :
           \/ \E newName \in RaceNames : RenameLookup(h, newName)
           \/ RenameCheck(h)
           \/ RenameStore(h)
           \/ DeleteCheck(h)
           \/ DeleteStore(h)
           \/ Load(h)
    \/ \E e \in Entities : AddReference(e)
    \/ \E r \in refs : DropReference(r)

SpecRace == Init /\ [][NextRace]_vars

\* Concurrent Updates: each of the two handles, loaded from the same stored
\* state, makes one Update call; the steps of the two calls interleave freely
\* (no lock is held from line 591 to line 661); the references change while
\* no call is in progress.
UpdateRaceConfigs == {PutWeb, PutDrop}

FirstUpdate(h, config) == call[h].op = "none" /\ UpdateValidate(h, config)

NextUpdateRace ==
    \/ \E h \in Handles :
           \/ \E config \in UpdateRaceConfigs : FirstUpdate(h, config)
           \/ UpdatePersist(h)
           \/ UpdateScope(h)
           \/ UpdateNewOVN(h)
           \/ UpdateGetIDs(h)
           \/ UpdateEnsure(h)
           \/ UpdatePortGroupDelete(h)
           \/ UpdateRevert(h)
           \/ UpdateReturn(h)
    \/ \E e \in Entities : AddReferenceBetweenCalls(e)
    \/ \E r \in refs : DropReferenceBetweenCalls(r)

SpecUpdateRace == Init /\ [][NextUpdateRace]_vars

\* ------------------------------------------------------------------ validators

\* The ACL names the store lists when a validator is called directly.
ProbeACLNames == {W("web"), OtherACLName}

\* The arguments of the direct calls of validateRule.
ProbeSubjects ==
    {Empty, W("10.0.0.0/24"), W("2001:db8::/32"), W("@internal"), W("@external"),
     W("#internal"), W("db"), W("nope"), <<"192.0.2.1", ",", " ", "db">>}

ProbeProtocols == {Empty, W("tcp"), W("udp"), W("icmp4"), W("icmp6"), W("sctp")}

ProbeSourcePorts == {Empty, W("8000-8080")}

ProbeDestinationPorts == {Empty, W("80"), <<"80", ",", "443">>, W("http")}

ProbeICMPTypes == {Empty, W("8"), W("x")}

ProbeICMPCodes == {Empty, W("0")}

ProbeRules ==
    {[BaseRule EXCEPT !.Source = src, !.Destination = dst, !.Protocol = proto,
                      !.SourcePort = sport, !.DestinationPort = dport,
                      !.ICMPType = icmpType, !.ICMPCode = icmpCode] :
        src \in ProbeSubjects, dst \in ProbeSubjects, proto \in ProbeProtocols,
        sport \in ProbeSourcePorts, dport \in ProbeDestinationPorts,
        icmpType \in ProbeICMPTypes, icmpCode \in ProbeICMPCodes}

\* Rules with an action or a state that is not one of the literals.
ProbeBadFieldRules ==
    {[r EXCEPT !.Action = W("permit")] : r \in {BaseRule, RulePingPort, RuleToDb}}
    \cup {[r EXCEPT !.State = W("on")] : r \in {BaseRule, RulePingPort, RuleToDb}}

RuleProbes ==
    {[NoProbe EXCEPT !.kind = "rule", !.direction = d, !.rule = r] :
        d \in {ruleDirectionIngress, ruleDirectionEgress}, r \in ProbeRules}
    \cup {[NoProbe EXCEPT !.kind = "rule", !.direction = d, !.rule = r, !.readOk = ok] :
             d \in {ruleDirectionIngress, ruleDirectionEgress},
             r \in ProbeBadFieldRules \cup {BaseRule, RulePingPort, RuleToDb},
             ok \in BOOLEAN}

\* The arguments of the direct calls of validateConfig: rule lists of up to
\* MaxIngress and MaxEgress rules.
MaxIngress == 3

MaxEgress == 2

IngressAlphabet == {RuleDropAll, RuleFromInternal, RuleFromInternalNormal, RulePingPort}

EgressAlphabet == {RuleDropAll, RuleToDb, RuleFromInternal}

SeqsUpTo(S, n) == UNION {[1..k -> S] : k \in 0..n}

ConfigProbes ==
    {[NoProbe EXCEPT !.kind = "config",
                     !.cfg = [EmptyPut EXCEPT !.Ingress = ing, !.Egress = eg]] :
        ing \in SeqsUpTo(IngressAlphabet, MaxIngress),
        eg \in SeqsUpTo(EgressAlphabet, MaxEgress)}
    \cup {[NoProbe EXCEPT !.kind = "config", !.cfg = c] :
             c \in {PutWeb, PutUnknownKey, PutDuplicate}}

\* The arguments of the direct calls of validateRuleSubjects: lists of up to
\* MaxSubjects subjects.
MaxSubjects == 2

ProbeSubjectTokens ==
    {W("10.0.0.1"), W("10.0.0.0/24"), W("2001:db8::1-2001:db8::9"), W("@internal"),
     W("#internal"), W("@external"), W("#external"), W("db"), W("web"), W("nope")}

SubjectProbes ==
    {[NoProbe EXCEPT !.kind = "subjects", !.fieldName = f, !.direction = d,
                     !.subjects = subjects] :
        f \in {"Source", "Destination"},
        d \in {ruleDirectionIngress, ruleDirectionEgress},
        subjects \in SeqsUpTo(ProbeSubjectTokens, MaxSubjects) \ {<< >>}}

InitValidate == InitACL /\ probe \in RuleProbes \cup ConfigProbes \cup SubjectProbes

\* One call of validateRuleSubjects.
ValidateSubjectsProbe ==
    /\ probe.kind = "subjects"
    /\ ~probe.applied
    /\ probe' = [probe EXCEPT
                    !.applied = TRUE,
                    !.has = validateRuleSubjects(probe.fieldName, probe.direction,
                                                 probe.subjects,
                                                 validSubjectNamesOf(ProbeACLNames))]
    /\ UNCHANGED <<store, refs, sdn, info, pc, call>>

\* One call of validateRule.
ValidateRuleProbe ==
    /\ probe.kind = "rule"
    /\ ~probe.applied
    /\ probe' = [probe EXCEPT
                    !.applied = TRUE,
                    !.err = validateRule(probe.direction, probe.rule, ProbeACLNames,
                                         probe.readOk)]
    /\ UNCHANGED <<store, refs, sdn, info, pc, call>>

\* One call of validateConfig; the listing of the ACL names can fail in the
\* validation of any rule.
ValidateConfigProbe ==
    /\ probe.kind = "config"
    /\ ~probe.applied
    /\ \E mapErr \in validateConfigMap(probe.cfg.Config, NoConfigRules),
          failAt \in ReadFailures(probe.cfg) :
          probe' = [probe EXCEPT
                       !.applied = TRUE,
                       !.failAt = failAt,
                       !.err = validateConfig(probe.cfg, mapErr, ProbeACLNames, failAt)]
    /\ UNCHANGED <<store, refs, sdn, info, pc, call>>

NextValidate == ValidateRuleProbe \/ ValidateConfigProbe \/ ValidateSubjectsProbe

SpecValidate == InitValidate /\ [][NextValidate]_vars

\* ------------------------------------------------------------------ properties

Has(c, name, outcome) == \E i \in 1..Len(c.log) : c.log[i] = <<name, outcome>>

Called(c, name) == \E i \in 1..Len(c.log) : c.log[i][1] = name

Reverse(s) == [i \in 1..Len(s) |-> s[Len(s) + 1 - i]]

Last(s) == s[Len(s)]

Done(h, op) == pc[h] = "idle" /\ call[h].op = op

SDNOperations ==
    {"ovn.newClient", "ovn.ensureACLs", "ovn.portGroupDeleteIfUnused", "ovn.revert"}

StoreReads == {"store.getACLByName", "store.enumerateUsage"}

EffectfulPhases == {"Persisting", "ScopingSDN", "SyncingSDN"}

UsageError == Wrapf(Err("usage failed"), "Failed getting ACL usage")

NameCollision == Err("An ACL by that name exists already")

RenameInUse == Err("Cannot rename an ACL that is in use")

DeleteInUse == Err("Cannot delete an ACL that is in use")

\* The error Update returns for a failure of each collaborator call.
ErrorOfStep(step) ==
    CASE step = "store.updateACL" -> Err("store: update failed")
      [] step = "store.networkUsage" ->
            Wrapf(Err("usage failed"), "Failed getting ACL network usage")
      [] step = "ovn.newClient" -> Wrapf(Err("ovn: connect failed"), "Failed to get OVN client")
      [] step = "store.listACLNameToID" ->
            Wrapf(Err("store: list failed"),
                  "Failed getting network ACL IDs for security ACL update")
      [] step = "ovn.ensureACLs" ->
            Wrapf(Err("ovn: ensure failed"), "Failed ensuring ACL is configured in OVN")
      [] step = "ovn.portGroupDeleteIfUnused" ->
            Wrapf(Err("ovn: delete failed"), "Failed removing unused OVN port groups")
      [] OTHER -> Nil

\* An Update that returned after ensureACLs or the port group removal failed.
SyncFailed(h) ==
    /\ Done(h, "Update")
    /\ call[h].step \in {"ovn.ensureACLs", "ovn.portGroupDeleteIfUnused"}
    /\ Has(call[h], "store.updateACL", "ok")

\* C1 as stated: after an Update that failed in the SDN synchronization, the
\* store holds the configuration it held before the Update began.
C1_StoreAsBeforeUpdate ==
    \A h \in Handles : SyncFailed(h) => store.cfg = call[h].storePre

\* C1 amended: after such an Update the store holds the configuration the
\* handle held when Update began, provided the compensating store write
\* succeeded; that is the configuration the store held before, when handle and
\* store agreed then.  When the compensating write fails, whose error is
\* dropped, the store keeps the new configuration.
C1_StoreRestoredIfRevertWriteSucceeds ==
    \A h \in Handles :
        SyncFailed(h) =>
            /\ call[h].oldConfig = call[h].infoPre
            /\ call[h].revertWriteOk => store.cfg = call[h].oldConfig
            /\ (call[h].revertWriteOk /\ call[h].infoPre = call[h].storePre)
                   => store.cfg = call[h].storePre
            /\ ~call[h].revertWriteOk => store.cfg = call[h].cfg

C1_Witness ==
    /\ SyncFailed(1)
    /\ call[1].step = "ovn.ensureACLs"
    /\ call[1].revertWriteOk
    /\ call[1].storePre # call[1].cfg
    /\ store.cfg = call[1].storePre

\* The proposed configuration of a call is rejected by validateConfig whatever
\* the store answers.
InvalidProposal(c) ==
    \A mapErr \in validateConfigMap(c.proposed.Config, NoConfigRules) :
        validateConfig(c.proposed, mapErr, c.namesPre, NoReadFailure) # Nil

ValidationErrors(c) ==
    {validateConfig(c.proposed, mapErr, c.namesPre, failAt) :
        mapErr \in validateConfigMap(c.proposed.Config, NoConfigRules),
        failAt \in ReadFailures(c.proposed)} \ {Nil}

\* C2: an Update whose configuration fails validation returns that error at
\* once: no store write, no SDN operation, no reversal action, and the
\* handle, the store and the port group are as they were.
C2_ValidationFailureHasNoEffect ==
    \A h \in Handles :
        (call[h].op = "Update" /\ (InvalidProposal(call[h]) \/ call[h].failed = "Validating"))
            => /\ pc[h] = "idle"
               /\ call[h].failed = "Validating"
               /\ call[h].err \in ValidationErrors(call[h])
               /\ call[h].log = << >>
               /\ call[h].pushed = << >>
               /\ call[h].ran = << >>
               /\ info[h].Put = call[h].infoPre
               /\ store.cfg = call[h].storePre
               /\ sdn = call[h].sdnStart

C2_Witness ==
    /\ Done(1, "Update")
    /\ call[1].proposed = PutDuplicate
    /\ call[1].err = <<"Duplicate of rule", "ingress", "0">>
    /\ store.cfg # EmptyPut
    /\ info[1].Put = store.cfg

PhasesAfter(phase) ==
    CASE phase = "Validating" -> {"Persisting"}
      [] phase = "Persisting" -> {"ScopingSDN", "RollingBack"}
      [] phase = "ScopingSDN" -> {"SyncingSDN", "Committed", "RollingBack"}
      [] phase = "SyncingSDN" -> {"Committed", "RollingBack"}
      [] OTHER -> {}

\* C3: an Update goes through Validating, Persisting, ScopingSDN, SyncingSDN,
\* Committed in that order; the reversal plan runs only after a failure in
\* Persisting, ScopingSDN or SyncingSDN, never after a failure in Validating
\* and never after Committed; a call that returned is Committed with nil or
\* has an error.
C3_PhaseOrder ==
    \A h \in Handles :
        call[h].op = "Update" =>
            LET c == call[h] IN
            /\ c.phases[1] = "Validating"
            /\ \A i \in 1..(Len(c.phases) - 1) : c.phases[i + 1] \in PhasesAfter(c.phases[i])
            /\ (pc[h] = "revert" \/ c.ran # << >>)
                   => /\ Last(c.phases) = "RollingBack"
                      /\ c.failed \in EffectfulPhases
                      /\ c.phases[Len(c.phases) - 1] = c.failed
            /\ pc[h] = "idle"
                   => \/ Last(c.phases) = "Committed" /\ c.err = Nil /\ c.failed = ""
                      \/ Last(c.phases) = "RollingBack" /\ c.err # Nil
                      \/ Last(c.phases) = "Validating" /\ c.err # Nil
                            /\ c.failed = "Validating"

C3_Witness ==
    /\ Done(1, "Update")
    /\ call[1].phases =
           <<"Validating", "Persisting", "ScopingSDN", "SyncingSDN", "Committed">>

\* C4: when Update fails in Persisting, ScopingSDN or SyncingSDN, the whole
\* reversal plan has run when it returns, and the error returned is the one of
\* the step that failed, also when the compensating store write failed.
C4_OriginalErrorReturned ==
    \A h \in Handles :
        (call[h].op = "Update" /\ call[h].failed \in EffectfulPhases)
            => /\ call[h].err = ErrorOfStep(call[h].step)
               /\ call[h].err # Nil
               /\ pc[h] = "idle"
                      => /\ call[h].plan = << >>
                         /\ call[h].ran = Reverse(call[h].pushed)

C4_Witness ==
    /\ Done(1, "Update")
    /\ call[1].step = "ovn.portGroupDeleteIfUnused"
    /\ ~call[1].revertWriteOk
    /\ call[1].ran = <<"sdn", "store">>
    /\ call[1].err = ErrorOfStep("ovn.portGroupDeleteIfUnused")

\* C5: the reversal actions run in the reverse of the order they were pushed,
\* each at most once (after a failed port group removal: the SDN reversal,
\* then the store restore), and an action is pushed only after its own step
\* succeeded.
C5_ReverseOrderOnce ==
    \A h \in Handles :
        call[h].op = "Update" =>
            LET c == call[h] IN
            /\ (pc[h] = "revert" \/ (pc[h] = "idle" /\ c.failed \in EffectfulPhases))
                   => c.ran \o Reverse(c.plan) = Reverse(c.pushed)
            /\ \A i, j \in 1..Len(c.ran) : c.ran[i] = c.ran[j] => i = j
            /\ (pc[h] = "idle" /\ c.step = "ovn.portGroupDeleteIfUnused")
                   => c.ran = <<"sdn", "store">>
            /\ (\E i \in 1..Len(c.pushed) : c.pushed[i] = "store")
                   => Has(c, "store.updateACL", "ok")
            /\ (\E i \in 1..Len(c.pushed) : c.pushed[i] = "sdn")
                   => Has(c, "ovn.ensureACLs", "ok")

C5_Witness ==
    /\ Done(1, "Update")
    /\ call[1].step = "ovn.portGroupDeleteIfUnused"
    /\ call[1].pushed = <<"store", "sdn">>
    /\ call[1].ran = <<"sdn", "store">>
    /\ call[1].revertWriteOk

\* C6: an Update issues an SDN operation only after its store write of the new
\* configuration succeeded.
C6_StoreWriteBeforeSDN ==
    \A h \in Handles :
        call[h].op = "Update" =>
            \A j \in 1..Len(call[h].log) :
                call[h].log[j][1] \in SDNOperations
                    => \E i \in 1..(j - 1) : call[h].log[i] = <<"store.updateACL", "ok">>

C6_Witness ==
    /\ call[1].op = "Update"
    /\ call[1].log = <<<<"store.updateACL", "ok">>, <<"store.networkUsage", "ok">>,
                       <<"ovn.newClient", "ok">>, <<"store.listACLNameToID", "ok">>,
                       <<"ovn.ensureACLs", "ok">>>>

\* C7: when no network of the computed usage is an OVN network, Update commits
\* without an SDN client and without an SDN operation, and the store and the
\* handle keep the new configuration.
C7_NoOVNNetworkCommits ==
    \A h \in Handles :
        (call[h].op = "Update" /\ call[h].scoped
            /\ \A n \in call[h].usage : n.Type # "ovn")
            => /\ pc[h] = "idle"
               /\ call[h].err = Nil
               /\ Last(call[h].phases) = "Committed"
               /\ \A j \in 1..Len(call[h].log) : call[h].log[j][1] \notin SDNOperations
               /\ call[h].ran = << >>
               /\ store.cfg = call[h].cfg
               /\ info[h].Put = call[h].cfg

C7_Witness ==
    /\ Done(1, "Update")
    /\ call[1].scoped
    /\ call[1].usage = {[name |-> "br0", Type |-> "bridge"]}
    /\ call[1].cfg = NormaliseConfig(PutWeb)
    /\ call[1].storePre # call[1].cfg
    /\ store.cfg = call[1].cfg

\* C8 as stated: a Rename of an ACL in use fails with a conflict error and
\* the store is not invoked during the call.
C8_InUseRenameNeverTouchesStore ==
    \A h \in Handles :
        (Done(h, "Rename") /\ call[h].usedPre)
            => /\ call[h].err \in {NameCollision, RenameInUse}
               /\ call[h].log = << >>

\* C8 amended: a Rename of an ACL in use always fails and never calls the
\* store's renameACL; the store is only read (the lookup of the new name, then
\* the usage enumeration).  The error is a conflict error (name collision, or
\* in use) unless the usage enumeration itself fails, whose error is returned.
C8_InUseRenameNeverWritesStore ==
    \A h \in Handles :
        (call[h].op = "Rename" /\ call[h].usedPre)
            => LET c == call[h] IN
               /\ pc[h] \in {"idle", "rename_used"}
               /\ \A i \in 1..Len(c.log) : c.log[i][1] \in StoreReads
               /\ c.log # << >>
               /\ c.log[1][1] = "store.getACLByName"
               /\ store.name = c.namePre
               /\ info[h].Name = c.namePre
               /\ pc[h] = "idle"
                      => /\ c.err # Nil
                         /\ Has(c, "store.enumerateUsage", "err") => c.err = UsageError
                         /\ ~Has(c, "store.enumerateUsage", "err")
                                => c.err \in {NameCollision, RenameInUse}

C8_Witness ==
    /\ Done(1, "Rename")
    /\ call[1].usedPre
    /\ call[1].newName = W("api")
    /\ call[1].err = RenameInUse

\* The error Rename returns, from what the call found.
RenameOutcome(c) ==
    IF c.newName \in c.namesPre THEN NameCollision
    ELSE IF Has(c, "store.enumerateUsage", "err") THEN UsageError
    ELSE IF c.usedPre THEN RenameInUse
    ELSE IF validateName(c.newName) # Nil THEN validateName(c.newName)
    ELSE IF Has(c, "store.renameACL", "err") THEN Err("store: rename failed")
    ELSE Nil

C10_DeleteGuard ==
    \A h \in Handles :
        call[h].op = "Delete" =>
            LET c == call[h] IN
            /\ (Called(c, "store.deleteACL") \/ pc[h] = "delete_store")
                   => c.log[1] = <<"store.enumerateUsage", "ok">> /\ ~c.usedPre
            /\ (Has(c, "store.enumerateUsage", "ok") /\ c.usedPre)
                   => pc[h] = "idle" /\ c.err = DeleteInUse /\ store.exists
            /\ Has(c, "store.enumerateUsage", "err")
                   => pc[h] = "idle" /\ c.err = UsageError /\ store.exists

C10_Witness ==
    /\ Done(1, "Delete")
    /\ call[1].usedPre
    /\ call[1].err = DeleteInUse
    /\ call[1].log = <<<<"store.enumerateUsage", "ok">>>>

\* A reference to an ACL name that no ACL holds any more.
Dangling(name) ==
    /\ \E r \in refs : r.name = name
    /\ ~store.exists \/ store.name # name

\* The destructive store call of handle h goes through.
DeleteProceeds(h) == DeleteStore(h) /\ ~store'.exists

RenameProceeds(h) == RenameStore(h) /\ store'.name = call[h].newName

\* C11: the in-use guard of Delete and Rename is checked before the store call
\* and not with it: a handle stands before its store call only after its
\* in-use check found no reference, and when a reference to the ACL has been
\* created since, the store delete (the store rename) still goes through.
C11_GuardNotAtomic ==
    \A h \in Handles :
        /\ pc[h] \in {"delete_store", "rename_store"}
               => Has(call[h], "store.enumerateUsage", "ok") /\ ~call[h].used
        /\ (pc[h] = "delete_store" /\ isUsed(info[h].Name)) => ENABLED DeleteProceeds(h)
        /\ (pc[h] = "rename_store" /\ isUsed(info[h].Name) /\ store.exists
                /\ call[h].newName \notin ProjectACLNames)
               => ENABLED RenameProceeds(h)

\* The name handle 2 renamed away is still referenced, and so is the name of
\* the ACL handle 1 deleted afterwards; both in-use checks had found nothing.
C11_Witness ==
    /\ pc[1] = "deleted"
    /\ ~call[1].used
    /\ Has(call[1], "store.deleteACL", "ok")
    /\ Dangling(call[1].namePre)
    /\ call[2].op = "Rename"
    /\ ~call[2].used
    /\ Has(call[2], "store.renameACL", "ok")
    /\ Dangling(call[2].namePre)
    /\ call[1].namePre = call[2].newName

\* C12: a Rename or a Delete call issues no SDN operation at any point, on
\* success and on every error path, and the port group of the ACL is as it
\* was when the call began.
C12_NoSDNInRenameDelete ==
    \A h \in Handles :
        call[h].op \in {"Rename", "Delete"}
            => /\ \A i \in 1..Len(call[h].log) : call[h].log[i][1] \notin SDNOperations
               /\ sdn = call[h].sdnStart

\* A Delete that succeeded while the port group of the ACL was still in OVN.
C12_Witness ==
    /\ pc[1] = "deleted"
    /\ call[1].op = "Delete"
    /\ Has(call[1], "store.deleteACL", "ok")
    /\ ~store.exists
    /\ sdn # << >>
    /\ sdn = call[1].sdnStart

\* A direct call of a validator that has returned.
Validated(kind) == probe.kind = kind /\ probe.applied

HasTwin(rules, i) == \E j \in 1..Len(rules) : j # i /\ rules[j] = rules[i]

HasDuplicate(rules) == \E i \in 1..Len(rules) : HasTwin(rules, i)

\* The first rule of the sequence that has a twin.
FirstTwin(rules) ==
    CHOOSE i \in 1..Len(rules) : HasTwin(rules, i) /\ \A j \in 1..(i - 1) : ~HasTwin(rules, j)

IndividuallyValid(direction, rule) == validateRule(direction, rule, ProbeACLNames, TRUE) = Nil

DuplicateError(direction, i) == <<"Duplicate of rule", direction, ToString(i - 1)>>

IsDuplicateError(err) == err # Nil /\ err[1] = "Duplicate of rule"

\* The rules 1..k of a direction pass validateRule, the listing included.
ValidUpTo(direction, rules, k, failAt) ==
    \A i \in 1..k : IndividuallyValid(direction, rules[i]) /\ failAt # <<direction, i>>

\* The whole direction passes: every rule valid and no two identical.
DirectionPasses(direction, rules, failAt) ==
    ValidUpTo(direction, rules, Len(rules), failAt) /\ ~HasDuplicate(rules)

ConfigMapAccepted(cfg) == validateConfigMap(cfg.Config, NoConfigRules) = {Nil}

\* C13 as stated: a configuration with two rules of one direction that are
\* identical after normalisation fails with a duplicate error (the store
\* answering, the config map accepted).
C13_DuplicatesGiveDuplicateError ==
    (Validated("config") /\ ConfigMapAccepted(probe.cfg) /\ probe.failAt = NoReadFailure) =>
        LET n == NormaliseConfig(probe.cfg)
        IN  (HasDuplicate(n.Ingress) \/ HasDuplicate(n.Egress)) => IsDuplicateError(probe.err)

\* C13 amended: such a configuration always fails validation, whatever the
\* positions of the two rules.  The error is the duplicate error with the index
\* of the first rule that has a twin when every rule up to that one is
\* individually valid (for egress: when the ingress rules pass as well);
\* otherwise it is the error of the earlier failure.  A rule that is once in
\* ingress and once in egress is no duplicate.
C13_DuplicatesAlwaysFail ==
    (Validated("config") /\ ConfigMapAccepted(probe.cfg)) =>
        LET n == NormaliseConfig(probe.cfg)
            f == probe.failAt
        IN  /\ (HasDuplicate(n.Ingress) \/ HasDuplicate(n.Egress)) => probe.err # Nil
            /\ (HasDuplicate(n.Ingress)
                    /\ ValidUpTo(ruleDirectionIngress, n.Ingress, FirstTwin(n.Ingress), f))
                   => probe.err = DuplicateError(ruleDirectionIngress, FirstTwin(n.Ingress))
            /\ (DirectionPasses(ruleDirectionIngress, n.Ingress, f)
                    /\ HasDuplicate(n.Egress)
                    /\ ValidUpTo(ruleDirectionEgress, n.Egress, FirstTwin(n.Egress), f))
                   => probe.err = DuplicateError(ruleDirectionEgress, FirstTwin(n.Egress))
            /\ (DirectionPasses(ruleDirectionIngress, n.Ingress, f)
                    /\ DirectionPasses(ruleDirectionEgress, n.Egress, f))
                   => probe.err = Nil

\* The first and the third ingress rule are identical once normalised, and
\* the second one is also the egress rule.
C13_Witness ==
    /\ Validated("config")
    /\ probe.cfg.Ingress = <<RuleFromInternal, RuleDropAll, RuleFromInternalNormal>>
    /\ probe.cfg.Egress = <<RuleDropAll>>
    /\ probe.err = DuplicateError(ruleDirectionIngress, 1)

ProbeNames == validSubjectNamesOf(ProbeACLNames)

IsAddress(subject) ==
    firstVersion(isNetworkAddress(subject), isNetworkAddressCIDR(subject),
                 isNetworkRange(subject)) # NoVersion

NamedNotAllowed(fieldName, direction) ==
    <<"Named subjects not allowed in", fieldName, direction>>

\* The field and direction pairs in which a named subject may stand.
NamesAllowedIn(fieldName, direction) ==
    <<fieldName, direction>> \in {<<"Source", ruleDirectionIngress>>,
                                  <<"Destination", ruleDirectionEgress>>}

HasNamed(subjects) == \E i \in 1..Len(subjects) : subjects[i] \in ProbeNames

\* The first subject of the list that is no address is a name.
FirstOtherIsNamed(subjects) ==
    \E i \in 1..Len(subjects) :
        subjects[i] \in ProbeNames /\ \A j \in 1..(i - 1) : IsAddress(subjects[j])

\* C14: a named subject (@internal, @external, their #-aliases, the name of an
\* ACL of the project) is accepted as Source of an ingress rule and as
\* Destination of an egress rule only: in the other field validateRuleSubjects
\* returns the named-subject-not-allowed error and the rule fails validation;
\* as Source of an ingress rule the subject is accepted.
C14_NamedSubjectFieldAndDirection ==
    /\ Validated("subjects") =>
           LET subjects == probe.subjects
               allowed == NamesAllowedIn(probe.fieldName, probe.direction)
           IN  /\ (FirstOtherIsNamed(subjects) /\ ~allowed)
                      => probe.has.err = NamedNotAllowed(probe.fieldName, probe.direction)
               /\ (HasNamed(subjects) /\ ~allowed) => probe.has.err # Nil
               /\ (allowed /\ \A i \in 1..Len(subjects) :
                                  subjects[i] \in ProbeNames \/ IsAddress(subjects[i]))
                      => probe.has.err = Nil /\ (probe.has.hasName <=> HasNamed(subjects))
    /\ Validated("rule") =>
           LET rule == probe.rule
               wrong == IF probe.direction = ruleDirectionIngress THEN "Destination"
                        ELSE "Source"
               right == IF probe.direction = ruleDirectionIngress THEN "Source"
                        ELSE "Destination"
           IN  /\ HasNamed(SplitNTrimSpace(rule[wrong])) => probe.err # Nil
               /\ (probe.readOk /\ rule[right] \in ProbeNames
                       /\ rule = [BaseRule EXCEPT ![right] = rule[right]])
                      => probe.err = Nil

\* The alias #internal as the only Destination of an ingress rule.
C14_Witness ==
    /\ Validated("subjects")
    /\ probe.fieldName = "Destination"
    /\ probe.direction = ruleDirectionIngress
    /\ probe.subjects = <<W("#internal")>>
    /\ probe.has.err = NamedNotAllowed("Destination", ruleDirectionIngress)

\* The rule of the scenario, and the same rule with icmp4 and one port.
ScenarioRule ==
    [BaseRule EXCEPT !.Source = W("10.0.0.0/24"), !.Destination = W("@internal"),
                     !.Protocol = W("tcp"), !.DestinationPort = <<"80", ",", "443">>]

ScenarioRuleICMP ==
    [ScenarioRule EXCEPT !.Protocol = W("icmp4"), !.DestinationPort = W("80")]

PortWithICMP4 == <<"Destination port cannot be used with protocol", "icmp4">>

\* C15 as stated: as an ingress rule the rule of the scenario validates, and
\* with icmp4 and destination port 80 it fails with the port-with-ICMP error.
C15_ScenarioAsIngressRule ==
    (Validated("rule") /\ probe.readOk /\ probe.direction = ruleDirectionIngress)
        => /\ probe.rule = ScenarioRule => probe.err = Nil
           /\ probe.rule = ScenarioRuleICMP => probe.err = PortWithICMP4

\* C15 amended: as an egress rule the rule of the scenario validates, and
\* with icmp4 and destination port 80 it fails with the port-with-ICMP error;
\* as an ingress rule both fail with the named-subject-not-allowed error of the
\* Destination field, which is looked at before the protocol.
C15_ScenarioAsEgressRule ==
    (Validated("rule") /\ probe.readOk)
        => /\ (probe.direction = ruleDirectionEgress /\ probe.rule = ScenarioRule)
                  => probe.err = Nil
           /\ (probe.direction = ruleDirectionEgress /\ probe.rule = ScenarioRuleICMP)
                  => probe.err = PortWithICMP4
           /\ (probe.direction = ruleDirectionIngress
                   /\ probe.rule \in {ScenarioRule, ScenarioRuleICMP})
                  => probe.err = <<"Invalid Destination">>
                                    \o NamedNotAllowed("Destination", ruleDirectionIngress)

C15_Witness ==
    /\ Validated("rule")
    /\ probe.direction = ruleDirectionEgress
    /\ probe.rule = ScenarioRuleICMP
    /\ probe.err = PortWithICMP4

ICMPSet(rule) == rule.ICMPType # Empty \/ rule.ICMPCode # Empty

PortSet(rule) == rule.SourcePort # Empty \/ rule.DestinationPort # Empty

ValidActionAndState(rule) == rule.Action \in ValidActions /\ rule.State \in validStates

WithoutICMP(rule) == [rule EXCEPT !.ICMPType = Empty, !.ICMPCode = Empty]

WithoutPorts(rule) == [rule EXCEPT !.SourcePort = Empty, !.DestinationPort = Empty]

\* A call of validateRule on a rule with one of these protocols has returned;
\* the action and the state are valid and the store listed the ACL names.
ValidatedWithProtocol(protocols) ==
    /\ Validated("rule")
    /\ probe.readOk
    /\ ValidActionAndState(probe.rule)
    /\ probe.rule.Protocol \in protocols

\* C16 as stated: a tcp or udp rule fails validation if and only if its ICMP
\* type or its ICMP code is set.
C16_TransportFailsIffICMPSet ==
    ValidatedWithProtocol({W("tcp"), W("udp")}) => (probe.err # Nil <=> ICMPSet(probe.rule))

\* C16 amended: a tcp or udp rule whose ICMP type or ICMP code is set always
\* fails validation, and when the rule is valid apart from these two fields the
\* error is the one of the field set (the type first); a tcp or udp rule that
\* is valid apart from these two fields fails if and only if one of them is
\* set.  A rule with neither set fails when another field is invalid.
C16_TransportRejectsICMPFields ==
    (Validated("rule") /\ probe.rule.Protocol \in {W("tcp"), W("udp")}) =>
        LET rule == probe.rule
            otherwiseValid == IndividuallyValid(probe.direction, WithoutICMP(rule))
        IN  /\ ICMPSet(rule) => probe.err # Nil
            /\ (probe.readOk /\ otherwiseValid) => (probe.err # Nil <=> ICMPSet(rule))
            /\ (probe.readOk /\ otherwiseValid /\ rule.ICMPType # Empty)
                   => probe.err = Err("ICMP type cannot be used with non-ICMP protocol")
            /\ (probe.readOk /\ otherwiseValid /\ rule.ICMPType = Empty
                    /\ rule.ICMPCode # Empty)
                   => probe.err = Err("ICMP code cannot be used with non-ICMP protocol")

\* A udp rule with ports and an ICMP code only.
C16_Witness ==
    /\ ValidatedWithProtocol({W("udp")})
    /\ probe.rule.ICMPType = Empty
    /\ probe.rule.ICMPCode = W("0")
    /\ probe.rule.DestinationPort = <<"80", ",", "443">>
    /\ IndividuallyValid(probe.direction, WithoutICMP(probe.rule))
    /\ probe.err = Err("ICMP code cannot be used with non-ICMP protocol")

PortWithProtocol(fieldName, protocol) ==
    <<fieldName \o " port cannot be used with protocol", protocol[1]>>

\* C17 as stated: an icmp4 or icmp6 rule fails validation if and only if a
\* source port or a destination port is set.
C17_ICMPFailsIffPortSet ==
    ValidatedWithProtocol({W("icmp4"), W("icmp6")}) => (probe.err # Nil <=> PortSet(probe.rule))

\* C17 amended: an icmp4 or icmp6 rule with a source or a destination port
\* always fails validation, and when the rule is valid apart from its ports the
\* error is the port-cannot-be-used error of the field set (the source port
\* first); an icmp4 or icmp6 rule that is valid apart from its ports fails if
\* and only if a port is set.  A rule without ports fails when another field is
\* invalid.
C17_ICMPRejectsPorts ==
    (Validated("rule") /\ probe.rule.Protocol \in {W("icmp4"), W("icmp6")}) =>
        LET rule == probe.rule
            otherwiseValid == IndividuallyValid(probe.direction, WithoutPorts(rule))
        IN  /\ PortSet(rule) => probe.err # Nil
            /\ (probe.readOk /\ otherwiseValid) => (probe.err # Nil <=> PortSet(rule))
            /\ (probe.readOk /\ otherwiseValid /\ rule.SourcePort # Empty)
                   => probe.err = PortWithProtocol("Source", rule.Protocol)
            /\ (probe.readOk /\ otherwiseValid /\ rule.SourcePort = Empty
                    /\ rule.DestinationPort # Empty)
                   => probe.err = PortWithProtocol("Destination", rule.Protocol)

\* An icmp6 rule with an ICMP type and a source port only.
C17_Witness ==
    /\ ValidatedWithProtocol({W("icmp6")})
    /\ probe.rule.SourcePort = W("8000-8080")
    /\ probe.rule.DestinationPort = Empty
    /\ probe.rule.ICMPType = W("8")
    /\ IndividuallyValid(probe.direction, WithoutPorts(probe.rule))
    /\ probe.err = <<"Source port cannot be used with protocol", "icmp6">>

\* The versions of the subjects of a field: all addresses of the one family.
OnlyFamily(field, version) ==
    LET subjects == SplitNTrimSpace(field)
    IN  /\ field # Empty
        /\ \A i \in 1..Len(subjects) :
               firstVersion(isNetworkAddress(subjects[i]), isNetworkAddressCIDR(subjects[i]),
                            isNetworkRange(subjects[i])) = version

FamilyMismatch(rule) ==
    \/ OnlyFamily(rule.Source, 4) /\ OnlyFamily(rule.Destination, 6)
    \/ OnlyFamily(rule.Source, 6) /\ OnlyFamily(rule.Destination, 4)

FamilyConflict == Err("Conflicting IP family types used for Source and Destination")

OnlyAddresses(field) == OnlyFamily(field, 4) \/ OnlyFamily(field, 6)

\* The rule has a source and a destination and nothing else beyond the
\* required fields.
SubjectsOnly(rule) ==
    rule = [BaseRule EXCEPT !.Source = rule.Source, !.Destination = rule.Destination]

\* C18 as stated: a rule with IPv4 addresses only on one side and IPv6
\* addresses only on the other fails with the family-conflict error, and with
\* @external as Destination instead the rule is valid.
C18_ExternalDestinationValid ==
    (Validated("rule") /\ probe.readOk /\ ValidActionAndState(probe.rule))
        => /\ FamilyMismatch(probe.rule) => probe.err = FamilyConflict
           /\ (SubjectsOnly(probe.rule) /\ OnlyAddresses(probe.rule.Source)
                   /\ probe.rule.Destination = ruleSubjectExternal)
                  => probe.err = Nil

\* C18 amended: such a rule always fails validation, with the family-conflict
\* error when its action and state are valid; with @external as Destination
\* instead an egress rule is valid, while an ingress rule fails with the
\* named-subject-not-allowed error; with @external as Source an ingress rule
\* is valid with a Destination of either family.
C18_FamilyConflictAndNamedSubject ==
    Validated("rule") =>
        LET rule == probe.rule
            ok == probe.readOk /\ ValidActionAndState(rule)
        IN  /\ FamilyMismatch(rule) => probe.err # Nil
            /\ (ok /\ FamilyMismatch(rule)) => probe.err = FamilyConflict
            /\ (ok /\ SubjectsOnly(rule) /\ OnlyAddresses(rule.Source)
                    /\ rule.Destination = ruleSubjectExternal)
                   => probe.err = IF probe.direction = ruleDirectionEgress THEN Nil
                                  ELSE <<"Invalid Destination">>
                                           \o NamedNotAllowed("Destination", probe.direction)
            /\ (ok /\ SubjectsOnly(rule) /\ OnlyAddresses(rule.Destination)
                    /\ rule.Source = ruleSubjectExternal
                    /\ probe.direction = ruleDirectionIngress)
                   => probe.err = Nil

\* IPv6 source and IPv4 destination, on an egress rule with a protocol.
C18_Witness ==
    /\ Validated("rule")
    /\ probe.direction = ruleDirectionEgress
    /\ probe.rule.Source = W("2001:db8::/32")
    /\ probe.rule.Destination = W("10.0.0.0/24")
    /\ probe.rule.Protocol = W("tcp")
    /\ probe.err = FamilyConflict

\* The keys of a config map without a validator in the table that are no
\* user keys.
UnregisteredKeys(config, rules) ==
    {k \in DOMAIN config : k \notin DOMAIN rules /\ ~IsUserConfig(k)}

\* A validator table with one key, and config maps for it.
ModeRules == [k \in {W("mode")} |-> {Empty, W("strict")}]

ModeConfig(value) == [k \in {W("mode")} |-> value]

ModeAndUnknownConfig ==
    [k \in {W("mode"), W("foo")} |-> IF k = W("foo") THEN W("bar") ELSE W("strict")]

ConfigMaps ==
    {NoConfig, UserConfig, UnknownConfig, MixedConfig, ModeConfig(W("strict")),
     ModeConfig(W("loose")), ModeAndUnknownConfig}

\* C19: validateConfigMap rejects every config map with a key that has no
\* validator in the table and is no user key, whatever the table, and accepts
\* a map of user keys and keys whose validators accept; an Update whose config
\* map holds a key that is no user key is therefore rejected with the error
\* of such a key before any store call, and nothing has changed.
C19_ClosedWorldConfig ==
    /\ \A config \in ConfigMaps, rules \in {NoConfigRules, ModeRules} :
           /\ UnregisteredKeys(config, rules) # {}
                  => Nil \notin validateConfigMap(config, rules)
           /\ (UnregisteredKeys(config, rules) = {} /\ config # ModeConfig(W("loose")))
                  => validateConfigMap(config, rules) = {Nil}
    /\ \A h \in Handles :
           (call[h].op = "Update"
               /\ UnregisteredKeys(call[h].proposed.Config, NoConfigRules) # {})
               => /\ pc[h] = "idle"
                  /\ call[h].failed = "Validating"
                  /\ call[h].err \in
                         {<<"Invalid config option">> \o k :
                             k \in UnregisteredKeys(call[h].proposed.Config, NoConfigRules)}
                  /\ call[h].log = << >>
                  /\ store.cfg = call[h].storePre
                  /\ info[h].Put = call[h].infoPre

\* An Update with a user key and an unknown key, otherwise valid, was
\* rejected and the store keeps what an earlier Update wrote.
C19_Witness ==
    /\ Done(1, "Update")
    /\ call[1].proposed = PutMixedKeys
    /\ call[1].err = <<"Invalid config option", "foo">>
    /\ call[1].log = << >>
    /\ store.cfg = NormaliseConfig(PutDrop)

\* Rule i of a direction fails validateRule (the listing included).
InvalidAt(direction, rules, i, failAt) ==
    ~IndividuallyValid(direction, rules[i]) \/ failAt = <<direction, i>>

\* The first index at which a rule is invalid or has a twin, 0 when none.
FirstBad(direction, rules, failAt) ==
    IF \A i \in 1..Len(rules) : ~InvalidAt(direction, rules, i, failAt) /\ ~HasTwin(rules, i)
    THEN 0
    ELSE CHOOSE i \in 1..Len(rules) :
             /\ InvalidAt(direction, rules, i, failAt) \/ HasTwin(rules, i)
             /\ \A j \in 1..(i - 1) :
                    ~InvalidAt(direction, rules, j, failAt) /\ ~HasTwin(rules, j)

IsInvalidRuleError(err, direction, i) ==
    Len(err) > 3 /\ SubSeq(err, 1, 3) = <<"Invalid rule", direction, ToString(i - 1)>>

\* What validateConfig says of one direction whose first bad index is i > 0.
ReportsFirstBad(err, direction, rules, i, failAt) ==
    IF InvalidAt(direction, rules, i, failAt)
    THEN IsInvalidRuleError(err, direction, i)
    ELSE err = DuplicateError(direction, i)

DirectionOf(err) == err[2]

RulesOf(cfg, direction) == IF direction = ruleDirectionIngress THEN cfg.Ingress ELSE cfg.Egress

\* C20 as stated: a duplicate error is reported only when every rule of that
\* direction is individually valid.
C20_DuplicateOnlyWhenAllValid ==
    (Validated("config") /\ probe.failAt = NoReadFailure /\ IsDuplicateError(probe.err)) =>
        LET rules == RulesOf(NormaliseConfig(probe.cfg), DirectionOf(probe.err))
        IN  \A i \in 1..Len(rules) : IndividuallyValid(DirectionOf(probe.err), rules[i])

\* C20 amended: every rule is normalised first; then, index by index, the
\* rule is validated and, when valid, compared with every other rule of the
\* direction.  The error reported is the one of the first index at which the
\* rule is invalid or has a twin (the rule-validation error when both), ingress
\* before egress; a duplicate error carries the index of the first rule that
\* has a twin and means that the rules up to that index are valid, not that all
\* are.
C20_ValidateThenScanPerRule ==
    (Validated("config") /\ ConfigMapAccepted(probe.cfg)) =>
        LET n == NormaliseConfig(probe.cfg)
            f == probe.failAt
            i == FirstBad(ruleDirectionIngress, n.Ingress, f)
            e == FirstBad(ruleDirectionEgress, n.Egress, f)
        IN  /\ i > 0 => ReportsFirstBad(probe.err, ruleDirectionIngress, n.Ingress, i, f)
            /\ (i = 0 /\ e > 0)
                   => ReportsFirstBad(probe.err, ruleDirectionEgress, n.Egress, e, f)
            /\ (i = 0 /\ e = 0) => probe.err = Nil
            /\ IsDuplicateError(probe.err)
                   => LET d == DirectionOf(probe.err)
                          k == FirstTwin(RulesOf(n, d))
                      IN  /\ probe.err = DuplicateError(d, k)
                          /\ ValidUpTo(d, RulesOf(n, d), k, f)

\* Two identical valid rules before an invalid one: the duplicate is reported.
C20_Witness ==
    /\ Validated("config")
    /\ probe.cfg.Ingress = <<RuleDropAll, RuleDropAll, RulePingPort>>
    /\ probe.failAt = NoReadFailure
    /\ ~IndividuallyValid(ruleDirectionIngress, RulePingPort)
    /\ probe.err = DuplicateError(ruleDirectionIngress, 1)

\* The store write of the Update of handle h failed.
PersistFailure(h) == call[h].op = "Update" /\ Has(call[h], "store.updateACL", "err")

\* C21: when the store write of Update fails, Update returns that error;
\* the handle holds the configuration it held before, no reversal action was
\* pushed or run (no compensating store write), and neither the usage scoping
\* nor an SDN operation was attempted: the failed write is the only call.
C21_PersistFailureLeavesHandle ==
    \A h \in Handles :
        PersistFailure(h) =>
            LET c == call[h] IN
            /\ c.err = Err("store: update failed")
            /\ c.failed = "Persisting"
            /\ c.log = <<<<"store.updateACL", "err">>>>
            /\ c.pushed = << >>
            /\ c.plan = << >>
            /\ c.ran = << >>
            /\ ~c.scoped
            /\ info[h].Put = c.infoPre
            /\ store.cfg = c.storePre
            /\ sdn = c.sdnStart

\* The handle held the configuration of an earlier Update when the store
\* write of the next one failed.
C21_Witness ==
    /\ Done(1, "Update")
    /\ PersistFailure(1)
    /\ call[1].proposed = PutWeb
    /\ call[1].infoPre = NormaliseConfig(PutDrop)
    /\ info[1].Put = NormaliseConfig(PutDrop)
    /\ call[1].err = Err("store: update failed")

\* The Update of handle h has returned an error of the usage scoping or of the
\* SDN synchronization.
FailedAfterPersist(h) ==
    /\ Done(h, "Update")
    /\ call[h].failed \in {"ScopingSDN", "SyncingSDN"}

\* The Update of handle h has returned nil.
ReturnedNil(h) == Done(h, "Update") /\ call[h].err = Nil

\* C22: after an Update that returns an error of ScopingSDN or SyncingSDN the
\* handle holds the configuration it held when Update was called, whether the
\* compensating store write succeeded or not; after an Update that returns
\* nil it holds the normalised proposed configuration.
C22_HandleAfterUpdate ==
    \A h \in Handles :
        /\ FailedAfterPersist(h) =>
               /\ call[h].err # Nil
               /\ \E i \in 1..Len(call[h].ran) : call[h].ran[i] = "store"
               /\ info[h].Put = call[h].infoPre
               /\ info[h].Name = call[h].namePre
        /\ ReturnedNil(h) =>
               /\ call[h].failed \notin {"Validating", "Persisting", "ScopingSDN", "SyncingSDN"}
               /\ info[h].Put = NormaliseConfig(call[h].proposed)
               /\ info[h].Name = call[h].namePre

\* An SDN step failed and the compensating store write failed as well: the
\* store keeps the new configuration, the handle has the old one back.
C22_Witness ==
    /\ FailedAfterPersist(1)
    /\ call[1].failed = "SyncingSDN"
    /\ Has(call[1], "store.updateACL(revert)", "err")
    /\ call[1].proposed = PutWeb
    /\ call[1].infoPre = NormaliseConfig(PutDrop)
    /\ info[1].Put = call[1].infoPre
    /\ store.cfg = NormaliseConfig(PutWeb)

\* The Update of handle h has returned and the store still has the ACL.
UpdateReturned(h) == Done(h, "Update") /\ store.exists

\* The compensating store write of the Update of handle h was issued and
\* failed.
RevertWriteFailed(h) == Has(call[h], "store.updateACL(revert)", "err")

\* C23 as stated: with one handle and no concurrent actor, after every Update
\* call returns the handle holds the configuration the store holds.
C23_HandleEqualsStore ==
    \A h \in SeqHandles : UpdateReturned(h) => info[h].Put = store.cfg

\* C23 amended: after an Update returns, handle and store agree when it
\* returned nil and when its compensating store write succeeded; when no store
\* write succeeded both are as they were at the call, so they agree when they
\* agreed then; when the compensating write failed the store keeps the new
\* configuration and the handle has the old one.
C23_HandleEqualsStoreUnlessRevertFails ==
    \A h \in SeqHandles :
        UpdateReturned(h) =>
            LET c == call[h] IN
            /\ c.err = Nil => info[h].Put = store.cfg
            /\ Has(c, "store.updateACL(revert)", "ok") => info[h].Put = store.cfg
            /\ (c.err # Nil /\ c.pushed = << >>) =>
                   /\ info[h].Put = c.infoPre
                   /\ store.cfg = c.storePre
            /\ RevertWriteFailed(h) =>
                   /\ info[h].Put = c.oldConfig
                   /\ store.cfg = c.cfg
            /\ (c.infoPre = c.storePre /\ ~RevertWriteFailed(h)) => info[h].Put = store.cfg

\* The Update of a handle that agreed with the store returned the error of a
\* failed SDN step; the compensating write failed, and handle and store differ.
C23_Witness ==
    /\ UpdateReturned(1)
    /\ RevertWriteFailed(1)
    /\ call[1].infoPre = call[1].storePre
    /\ call[1].proposed = PutDrop
    /\ info[1].Put = NormaliseConfig(EmptyPut)
    /\ store.cfg = NormaliseConfig(PutDrop)
    /\ info[1].Put # store.cfg

\* The Update calls of handles g and h overlapped: one began while the other
\* was in progress.
Interleaved(g, h) == h \in call[g].inFlight \/ g \in call[h].inFlight

\* The Update of handle h failed after its own store write and its reversal
\* action wrote the old configuration back.
RolledBack(h) ==
    /\ Done(h, "Update")
    /\ call[h].err # Nil
    /\ Has(call[h], "store.updateACL", "ok")
    /\ Has(call[h], "store.updateACL(revert)", "ok")

\* C24: when the Update calls of two handles loaded from the same stored
\* state interleave, one returns nil and the other fails after its own store
\* write and rolls back, then after both have returned the store holds the
\* configuration of the Update that returned nil.
C24_CommittedConfigurationKept ==
    \A g, h \in Handles :
        (/\ g # h
         /\ Interleaved(g, h)
         /\ call[g].infoPre = call[h].infoPre
         /\ ReturnedNil(g)
         /\ RolledBack(h)
         /\ store.exists)
            => store.cfg = call[g].cfg


====
